---- MODULE Spec2Model ----
(***************************************************************************)
(* Model of the time-step orchestrator PyOM.run (climate/pyom/pyom.py)     *)
(* with the GlobalOneDegree set_forcing hook.  The program counter pc      *)
(* walks through run() statement by statement; every stage called by the   *)
(* main loop is one action.                                                *)
(***************************************************************************)
EXTENDS Integers, Sequences, FiniteSets

\* ---- bounds of the model ------------------------------------------------
MaxRunlen == 3       \* run(snapint, runlen): runlen in 0..MaxRunlen
MaxDt == 2           \* set_parameter: dt_tracer in 0..MaxDt

\* ---- values and names ---------------------------------------------------
Slots == {0, 1, 2}
Partial == -1        \* content of a slot that a failing stage left half written
InitData == -2       \* content of a slot filled by set_initial_conditions
BaseFields == {"u", "v", "w", "temp", "salt", "psi"}
ClosureFields == {"tke", "eke", "E_iw", "E_M2", "E_niw"}
Fields == BaseFields \cup ClosureFields

\* variants of the loop body with two statements in the wrong order
LoopStages_thermo_first ==
  <<"set_forcing", "set_idemix_parameter", "set_spectral_parameter",
    "set_eke_diffusivities", "set_tke_diffusivities", "thermodynamics",
    "momentum", "calculate_velocity_on_wgrid", "integrate_eke",
    "integrate_idemix_M2", "integrate_idemix_niw", "integrate_idemix",
    "wave_interaction", "integrate_tke", "setcyclic_x",
    "vertical_velocity", "diagnose", "time_shift", "print_itt">>

LoopStages_tke_first ==
  <<"set_forcing", "set_idemix_parameter", "set_spectral_parameter",
    "set_eke_diffusivities", "set_tke_diffusivities", "momentum",
    "thermodynamics", "calculate_velocity_on_wgrid", "integrate_tke",
    "integrate_eke", "integrate_idemix_M2", "integrate_idemix_niw",
    "integrate_idemix", "wave_interaction", "setcyclic_x",
    "vertical_velocity", "diagnose", "time_shift", "print_itt">>

LoopStages_shift_early ==
  <<"set_forcing", "set_idemix_parameter", "set_spectral_parameter",
    "set_eke_diffusivities", "set_tke_diffusivities", "momentum",
    "thermodynamics", "calculate_velocity_on_wgrid", "integrate_eke",
    "integrate_idemix_M2", "integrate_idemix_niw", "integrate_idemix",
    "wave_interaction", "integrate_tke", "setcyclic_x",
    "vertical_velocity", "time_shift", "diagnose", "print_itt">>

\* the loop body with the boundary exchange right after momentum
LoopStages_exchange_early ==
  <<"set_forcing", "set_idemix_parameter", "set_spectral_parameter",
    "set_eke_diffusivities", "set_tke_diffusivities", "momentum", "setcyclic_x",
    "thermodynamics", "calculate_velocity_on_wgrid", "integrate_eke",
    "integrate_idemix_M2", "integrate_idemix_niw", "integrate_idemix",
    "wave_interaction", "integrate_tke",
    "vertical_velocity", "diagnose", "time_shift", "print_itt">>

\* the loop body with diagnose before vertical_velocity
LoopStages_diagnose_early ==
  <<"set_forcing", "set_idemix_parameter", "set_spectral_parameter",
    "set_eke_diffusivities", "set_tke_diffusivities", "momentum",
    "thermodynamics", "calculate_velocity_on_wgrid", "integrate_eke",
    "integrate_idemix_M2", "integrate_idemix_niw", "integrate_idemix",
    "wave_interaction", "integrate_tke", "setcyclic_x",
    "diagnose", "vertical_velocity", "time_shift", "print_itt">>

\* the statements of the body of "while self.itt < self.enditt: try:", in order
LoopStages == <<"set_forcing", "set_idemix_parameter", "set_spectral_parameter",
                "set_eke_diffusivities", "set_tke_diffusivities", "momentum",
                "thermodynamics", "calculate_velocity_on_wgrid", "integrate_eke",
                "integrate_idemix_M2", "integrate_idemix_niw", "integrate_idemix",
                "wave_interaction", "integrate_tke", "setcyclic_x",
                "vertical_velocity", "diagnose", "time_shift", "print_itt">>

StageNames == {LoopStages[i] : i \in 1..Len(LoopStages)}

VARIABLES
  pc,                \* position in run()
  taum1, tau, taup1, \* pointers to last, current and next time step
  itt, enditt,       \* time step number, last time step of the simulation
  runlen, dt_tracer,
  enable_idemix, enable_idemix_M2, enable_idemix_niw, enable_eke, enable_tke,
  enable_cyclic_x, enable_hydrostatic, enable_implicit_vert_friction,
  allocated,         \* the field arrays that allocate() created
  field,             \* field[f][slot]: content of one time slot of array f
  exchanged,         \* fields whose taup1 slot run() passed to setcyclic_x in this step
  forc_slot,         \* the slot of temp/salt that set_forcing read last
  stages,            \* the stages invoked so far in the current iteration
  calls,             \* calls[s]: invocations of stage s inside the main loop
  panics,            \* invocations of diagnostics.panic_snap
  exc, raisedAt,     \* the exception in flight or propagated, and where it was raised
  step0,             \* indices, itt and current-slot contents at the start of the iteration
  \* -- Overturning diagnostic (veros/diagnostics/overturning.py)
  ovt_bolus,         \* settings.enable_neutral_diffusion and settings.enable_skew_diffusion
  ovt_nitts,         \* ovt_vs.nitts
  ovt_acc,           \* ovt_acc[v]: the variable v of the diagnostic (one element of it)
  ovt_sum,           \* ovt_sum[v]: what diagnose added to v since the last output
  ovt_count,         \* calls of diagnose since the last output
  ovt_last,          \* what the last output wrote, and the samples it had to average
  ovt_ops,           \* calls of diagnose and output so far
  \* -- TracerMonitor diagnostic (veros/diagnostics/tracer_monitor.py)
  tm_maskT,          \* vs.maskT, per cell
  tm_temp, tm_salt,  \* vs.temp / vs.salt at slot tm_tau, per cell
  tm_tau,            \* vs.tau
  tm_stored,         \* tracer_vs.tempm1, vtemp1, saltm1, vsalt1
  tm_report,         \* the four lines output logged, until temp or salt change again
  tm_nout,           \* 1 once output has been called, 0 before
  \* -- diagnose_kernel: isopycnal coordinates of one latitude row
  sg_face,           \* sig_loc_face of each cell of the row
  sg_fac,            \* fac of each cell of the row
  sg_pc,             \* "loop" in the for_loop, "interp" before the interpolation, "done"
  sg_m,              \* the loop index m
  sg_z,              \* z_sig[j, m]
  sg_coords,         \* coords as _interpolate_depth_coords hands them to np.interp
  \* -- GlobalOneDegree: forcing interval (global_one_degree.py)
  per_itt,           \* m.itt
  per_rec,           \* what _get_periodic_interval returned to set_forcing at per_itt
  \* -- GlobalOneDegree.set_initial_conditions
  ic_pc,             \* "allocated" before set_initial_conditions, "set" after it
  ic_maskT,          \* m.maskT, per cell and level
  ic_tdata, ic_sdata,  \* the temperature and salt files, per interior cell and level
  ic_temp, ic_salt   \* m.temp and m.salt, per slot, cell and level

run_vars == <<pc, taum1, tau, taup1, itt, enditt, runlen, dt_tracer,
              enable_idemix, enable_idemix_M2, enable_idemix_niw, enable_eke, enable_tke,
              enable_cyclic_x, enable_hydrostatic, enable_implicit_vert_friction,
              allocated, field, exchanged, forc_slot, stages, calls, panics,
              exc, raisedAt, step0>>

ovt_vars == <<ovt_bolus, ovt_nitts, ovt_acc, ovt_sum, ovt_count, ovt_last, ovt_ops>>

tm_vars == <<tm_maskT, tm_temp, tm_salt, tm_tau, tm_stored, tm_report, tm_nout>>

sig_vars == <<sg_face, sg_fac, sg_pc, sg_m, sg_z, sg_coords>>

per_vars == <<per_itt, per_rec>>

ic_vars == <<ic_pc, ic_maskT, ic_tdata, ic_sdata, ic_temp, ic_salt>>

\* the state of the setup's forcing and initial conditions and of the kernel
rest_vars == <<sig_vars, per_vars, ic_vars>>

\* the state of the diagnostics and of the setup, which run() itself never touches
diag == <<ovt_vars, tm_vars, rest_vars>>

vars == <<run_vars, ovt_vars, tm_vars, rest_vars>>

settings == <<runlen, dt_tracer, enable_idemix, enable_idemix_M2, enable_idemix_niw,
              enable_eke, enable_tke, enable_cyclic_x, enable_hydrostatic,
              enable_implicit_vert_friction>>

indices == <<taum1, tau, taup1, itt>>

NoSlot == 3
NoStep == [taum1 |-> NoSlot, tau |-> NoSlot, taup1 |-> NoSlot, itt |-> 0,
           cur |-> [f \in Fields |-> 0]]

\* ---- construction -------------------------------------------------------
\* PyOM.__init__ / set_default_settings
RunInit ==
  /\ pc = "run"
  /\ taum1 = 0 /\ tau = 1 /\ taup1 = 2
  /\ itt = 1 /\ enditt = 1
  /\ runlen = 0 /\ dt_tracer = 0
  /\ enable_idemix = FALSE /\ enable_idemix_M2 = FALSE /\ enable_idemix_niw = FALSE
  /\ enable_eke = FALSE /\ enable_tke = FALSE
  /\ enable_cyclic_x = FALSE /\ enable_hydrostatic = TRUE
  /\ enable_implicit_vert_friction = FALSE
  /\ allocated = {}
  /\ field = [f \in Fields |-> [s \in Slots |-> 0]]
  /\ exchanged = {}
  /\ forc_slot = NoSlot
  /\ stages = <<>>
  /\ calls = [s \in StageNames |-> 0]
  /\ panics = 0
  /\ exc = "none" /\ raisedAt = "none"
  /\ step0 = NoStep

\* ---- Overturning diagnostic: values -------------------------------------
MaxOvtOps == 5       \* calls of Overturning.diagnose and Overturning.output in a behaviour
MaxSample == 2       \* diagnose_kernel is fed one of the model states 1..MaxSample

\* VARIABLES without nitts and the two axes sigma and zarea
OvtVars == {"trans", "vsf_iso", "vsf_depth", "bolus_iso", "bolus_depth"}
BolusVars == {"bolus_iso", "bolus_depth"}

\* mean_variables = ("trans", "vsf_iso", "vsf_depth")
mean_variables == {"trans", "vsf_iso", "vsf_depth"}

\* Overturning.__init__: the variables whose "active" holds
output_variables ==
  {v \in OvtVars : v \in BolusVars => ovt_bolus}

\* the quotient n / d of Python's true division, kept as a fraction
Rat(n, d) == [n |-> n, d |-> d]
NotWritten == Rat(0, 0)

NoOutput == [done |-> FALSE, vals |-> [v \in OvtVars |-> NotWritten],
             sums |-> [v \in OvtVars |-> 0], n |-> 0]

\* Overturning.initialize: initialize_variables leaves nitts and the arrays zero
OvtStart ==
  /\ ovt_nitts = 0
  /\ ovt_acc = [v \in OvtVars |-> 0]
  /\ ovt_sum = [v \in OvtVars |-> 0]
  /\ ovt_count = 0
  /\ ovt_last = NoOutput
  /\ ovt_ops = 0

OvtIdle ==
  ovt_bolus = FALSE /\ OvtStart

\* ---- TracerMonitor diagnostic: values -----------------------------------
MaxVal == 1          \* temp and salt of a cell are in 0..MaxVal

\* a row of cells: cell 1 lies in the halo, [2:-2] selects cells 2 and 3
Cells == {1, 2, 3}
Interior == {2, 3}

\* vs.area_t[...] * vs.dzt[...] of each cell
area_dzt == <<3, 1, 2>>

TmZero == [tempm1 |-> 0, vtemp1 |-> 0, saltm1 |-> 0, vsalt1 |-> 0]

\* a logged line gives a mean and its change to last, here as fractions
NoReport == [has |-> FALSE,
             mean |-> [q \in {"temp", "salt", "vtemp", "vsalt"} |-> NotWritten],
             change |-> [q \in {"temp", "salt", "vtemp", "vsalt"} |-> NotWritten]]

\* TracerMonitor.initialize: initialize_variables leaves the four totals zero
TmStart ==
  /\ tm_stored = TmZero
  /\ tm_report = NoReport
  /\ tm_nout = 0

TmIdle ==
  /\ tm_maskT = [c \in Cells |-> 1]
  /\ tm_temp = [c \in Cells |-> 0]
  /\ tm_salt = [c \in Cells |-> 0]
  /\ tm_tau = 1
  /\ TmStart

\* ---- diagnose_kernel, isopycnal coordinates: values -----------------------
MaxSig == 5          \* sig_loc_face of a cell is in 0..MaxSig
MaxFac == 1          \* fac of a cell is in 0..MaxFac

\* the cells (x, z) of one latitude row
SigCells == {1, 2, 3}

\* settings.nz and nlevel = settings.nz * 4
nz == 1
nlevel == nz * 4
Levels == 0..(nlevel - 1)

\* potential density of the lightest (35, 30) and of the densest (35, -2) water
sigs == 1
sige == 4
dsig == (sige - sigs) \div (nlevel - 1)

\* allocate(state.dimensions, ('yu', nlevel))
ZeroLevels == [m \in Levels |-> 0]

SigIdle ==
  /\ sg_face = [c \in SigCells |-> 0]
  /\ sg_fac = [c \in SigCells |-> 0]
  /\ sg_pc = "loop"
  /\ sg_m = 0
  /\ sg_z = ZeroLevels
  /\ sg_coords = ZeroLevels

\* ---- GlobalOneDegree, forcing interval: values ----------------------------
MaxPerItt == 800     \* steps of the run that call set_forcing

\* fxa = 365 * 86400., fxa / 12., 12 and MAIN_OPTIONS dt_tracer = 3600.0 / 2.0, in seconds
cycleLength == 365 * 86400
recSpacing == cycleLength \div 12
nbrec == 12
per_dt_tracer == 3600 \div 2

NoInterval == [has |-> FALSE, tRec1 |-> 0, wght1 |-> NotWritten,
               tRec2 |-> 0, wght2 |-> NotWritten]

PerIdle ==
  per_itt = 1 /\ per_rec = NoInterval

\* ---- GlobalOneDegree.set_initial_conditions: values -----------------------
MaxIc == 2           \* the values of the initial-condition files are in 1..MaxIc

\* a row of columns: column 1 lies in the halo, [2:-2] selects column 2
IcCols == {1, 2}
IcInterior == {2}
\* the vertical levels 0..m.nz - 1 of a column
ic_nz == 2
IcLevels == 0..(ic_nz - 1)
IcCells == IcCols \X IcLevels

\* np.zeros((nx+4, ny+4, nz, 3))
IcZeros == [s \in Slots |-> [p \in IcCells |-> 0]]

IcIdle ==
  /\ ic_pc = "allocated"
  /\ ic_maskT = [p \in IcCells |-> 1]
  /\ ic_tdata = [p \in IcInterior \X IcLevels |-> 1]
  /\ ic_sdata = [p \in IcInterior \X IcLevels |-> 1]
  /\ ic_temp = IcZeros
  /\ ic_salt = IcZeros

RestIdle ==
  SigIdle /\ PerIdle /\ IcIdle

\* a model object, with both diagnostics constructed and not yet used
Init ==
  RunInit /\ OvtIdle /\ TmIdle /\ RestIdle

\* ---- helpers ------------------------------------------------------------
\* the arrays PyOM.allocate creates for the given switches
allocate(idemix, M2, niw, eke, tke) ==
  BaseFields
    \cup (IF idemix THEN {"E_iw"} ELSE {})
    \cup (IF M2 THEN {"E_M2"} ELSE {})
    \cup (IF niw THEN {"E_niw"} ELSE {})
    \cup (IF tke THEN {"tke"} ELSE {})
    \cup (IF eke THEN {"eke"} ELSE {})

\* the conditions of run() with calculate_velocity_on_wgrid under enable_eke alone
StageEnabled_wgrid_eke_only(s) ==
  CASE s = "set_idemix_parameter" -> enable_idemix
    [] s = "set_spectral_parameter" -> enable_idemix_M2 \/ enable_idemix_niw
    [] s = "calculate_velocity_on_wgrid" -> enable_eke
    [] s = "integrate_eke" -> enable_eke
    [] s = "integrate_idemix_M2" -> enable_idemix_M2
    [] s = "integrate_idemix_niw" -> enable_idemix_niw
    [] s = "integrate_idemix" -> enable_idemix
    [] s = "wave_interaction" -> enable_idemix_M2 \/ enable_idemix_niw
    [] s = "integrate_tke" -> enable_tke
    [] s = "setcyclic_x" -> enable_cyclic_x
    [] s = "vertical_velocity" -> enable_hydrostatic
    [] OTHER -> TRUE

\* the condition under which run() calls stage s
StageEnabled(s) ==
  CASE s = "set_idemix_parameter" -> enable_idemix
    [] s = "set_spectral_parameter" -> enable_idemix_M2 \/ enable_idemix_niw
    [] s = "calculate_velocity_on_wgrid" -> enable_eke \/ enable_tke \/ enable_idemix
    [] s = "integrate_eke" -> enable_eke
    [] s = "integrate_idemix_M2" -> enable_idemix_M2
    [] s = "integrate_idemix_niw" -> enable_idemix_niw
    [] s = "integrate_idemix" -> enable_idemix
    [] s = "wave_interaction" -> enable_idemix_M2 \/ enable_idemix_niw
    [] s = "integrate_tke" -> enable_tke
    [] s = "setcyclic_x" -> enable_cyclic_x
    [] s = "vertical_velocity" -> enable_hydrostatic
    [] OTHER -> TRUE

\* the prognostic fields whose next slot stage s produces
Writes(s) ==
  CASE s = "momentum" -> {"u", "v", "psi"} \cup (IF enable_hydrostatic THEN {} ELSE {"w"})
    [] s = "thermodynamics" -> {"temp", "salt"}
    [] s = "integrate_eke" -> {"eke"}
    [] s = "integrate_idemix_M2" -> {"E_M2"}
    [] s = "integrate_idemix_niw" -> {"E_niw"}
    [] s = "integrate_idemix" -> {"E_iw"}
    [] s = "integrate_tke" -> {"tke"}
    [] s = "vertical_velocity" -> {"w"}
    [] OTHER -> {}

\* array fld after slot sl of the fields fs got the content val
WriteSlot(fld, fs, sl, val) ==
  [f \in Fields |-> IF f \in fs THEN [fld[f] EXCEPT ![sl] = val] ELSE fld[f]]

\* the exchange block without the call for eke
setcyclic_seq_no_eke ==
  <<"u", "v">>
    \o (IF enable_tke THEN <<"tke">> ELSE <<>>)
    \o (IF enable_idemix THEN <<"E_iw">> ELSE <<>>)
    \o (IF enable_idemix_M2 THEN <<"E_M2">> ELSE <<>>)
    \o (IF enable_idemix_niw THEN <<"E_niw">> ELSE <<>>)

\* the exchange block with the call for tke outside its if
setcyclic_seq_tke_always ==
  <<"u", "v", "tke">>
    \o (IF enable_eke THEN <<"eke">> ELSE <<>>)
    \o (IF enable_idemix THEN <<"E_iw">> ELSE <<>>)
    \o (IF enable_idemix_M2 THEN <<"E_M2">> ELSE <<>>)
    \o (IF enable_idemix_niw THEN <<"E_niw">> ELSE <<>>)

\* the fields run() hands to cyclic.setcyclic_x, in the order of the calls
setcyclic_seq ==
  <<"u", "v">>
    \o (IF enable_tke THEN <<"tke">> ELSE <<>>)
    \o (IF enable_eke THEN <<"eke">> ELSE <<>>)
    \o (IF enable_idemix THEN <<"E_iw">> ELSE <<>>)
    \o (IF enable_idemix_M2 THEN <<"E_M2">> ELSE <<>>)
    \o (IF enable_idemix_niw THEN <<"E_niw">> ELSE <<>>)

\* the fields of the first k calls of setcyclic_x
setcyclic_fields(k) ==
  {setcyclic_seq[i] : i \in 1..k}

\* the statement after p in the loop body
Succ(p) ==
  LET i == CHOOSE k \in 1..Len(LoopStages) : LoopStages[k] = p
  IN IF i = Len(LoopStages) THEN "loop" ELSE LoopStages[i + 1]

\* a stage of the loop body that is called (when enabled) and returns
Call(s) ==
  /\ pc = s
  /\ pc' = Succ(s)
  /\ IF StageEnabled(s)
       THEN /\ stages' = Append(stages, s)
            /\ calls' = [calls EXCEPT ![s] = @ + 1]
            /\ field' = WriteSlot(field, Writes(s), taup1, itt)
       ELSE UNCHANGED <<stages, calls, field>>
  /\ UNCHANGED <<diag, indices, enditt, settings, allocated, panics, exc, raisedAt, step0>>

\* ---- run(): setup phase -------------------------------------------------
\* def run(self, snapint, runlen): the caller chooses runlen
run ==
  /\ pc = "run"
  /\ \E r \in 0..MaxRunlen : runlen' = r
  /\ pc' = "setup"
  /\ UNCHANGED <<diag, indices, enditt, dt_tracer, enable_idemix, enable_idemix_M2,
                 enable_idemix_niw, enable_eke, enable_tke, enable_cyclic_x,
                 enable_hydrostatic, enable_implicit_vert_friction, allocated, field,
                 exchanged, forc_slot, stages, calls, panics, exc, raisedAt, step0>>

\* setup(): self.set_parameter(), the hook in which the subclass sets the switches
set_parameter ==
  /\ pc = "setup"
  /\ \E d \in 0..MaxDt : dt_tracer' = d
  /\ \E b \in [1..8 -> BOOLEAN] :
       /\ enable_idemix' = b[1]
       /\ enable_idemix_M2' = b[2]
       /\ enable_idemix_niw' = b[3]
       /\ enable_eke' = b[4]
       /\ enable_tke' = b[5]
       /\ enable_cyclic_x' = b[6]
       /\ enable_hydrostatic' = b[7]
       /\ enable_implicit_vert_friction' = b[8]
  /\ pc' = "setup_body"
  /\ UNCHANGED <<diag, indices, enditt, runlen, allocated, field, exchanged, forc_slot,
                 stages, calls, panics, exc, raisedAt, step0>>

\* setup(): allocate, grid, coriolis, topography, initial conditions, the first
\* set_forcing, diagnostics and closure initialisation, all returning
setup ==
  /\ pc = "setup_body"
  /\ allocated' = allocate(enable_idemix, enable_idemix_M2, enable_idemix_niw,
                           enable_eke, enable_tke)
  /\ field' = WriteSlot(WriteSlot(field, {"temp", "salt"}, 0, InitData),
                        {"temp", "salt"}, 1, InitData)
  /\ forc_slot' = 1
  /\ pc' = "check_setup"
  /\ UNCHANGED <<diag, indices, enditt, settings, exchanged, stages, calls, panics,
                 exc, raisedAt, step0>>

\* setup(): one of the calls above raises; run() has no handler around setup
setup_raises ==
  /\ pc = "setup_body"
  /\ exc' = "Error" /\ raisedAt' = "setup"
  /\ pc' = "raised"
  /\ UNCHANGED <<diag, indices, enditt, settings, allocated, field, exchanged, forc_slot,
                 stages, calls, panics, step0>>

\* setup() without its final check
check_setup_absent ==
  /\ pc = "check_setup"
  /\ pc' = "read_restart"
  /\ UNCHANGED <<diag, indices, enditt, settings, allocated, field, exchanged, forc_slot,
                 stages, calls, panics, exc, raisedAt, step0>>

\* setup(): "check setup", the last statement of setup()
check_setup ==
  /\ pc = "check_setup"
  /\ IF enable_tke /\ ~enable_implicit_vert_friction
       THEN /\ exc' = "RuntimeError" /\ raisedAt' = "check_setup"
            /\ pc' = "raised"
       ELSE /\ pc' = "read_restart"
            /\ UNCHANGED <<exc, raisedAt>>
  /\ UNCHANGED <<diag, indices, enditt, settings, allocated, field, exchanged, forc_slot,
                 stages, calls, panics, step0>>

\* run(): restart.read_restart(self.itt) and the diagnostics' restart readers return
read_restart ==
  /\ pc = "read_restart"
  /\ pc' = "set_enditt"
  /\ UNCHANGED <<diag, indices, enditt, settings, allocated, field, exchanged, forc_slot,
                 stages, calls, panics, exc, raisedAt, step0>>

\* run(): reading a restart raises; still outside the try statement
read_restart_raises ==
  /\ pc = "read_restart"
  /\ exc' = "Error" /\ raisedAt' = "read_restart"
  /\ pc' = "raised"
  /\ UNCHANGED <<diag, indices, enditt, settings, allocated, field, exchanged, forc_slot,
                 stages, calls, panics, step0>>

\* run(): self.enditt = self.itt + int(self.runlen / self.dt_tracer)
set_enditt ==
  /\ pc = "set_enditt"
  /\ IF dt_tracer = 0
       THEN /\ exc' = "ZeroDivisionError" /\ raisedAt' = "set_enditt"
            /\ pc' = "raised"
            /\ UNCHANGED enditt
       ELSE /\ enditt' = itt + (runlen \div dt_tracer)
            /\ pc' = "loop"
            /\ UNCHANGED <<exc, raisedAt>>
  /\ UNCHANGED <<diag, indices, settings, allocated, field, exchanged, forc_slot,
                 stages, calls, panics, step0>>

\* ---- run(): main loop ---------------------------------------------------
\* the loop test written with <=
loop_inclusive ==
  /\ pc = "loop"
  /\ IF itt <= enditt
       THEN /\ pc' = "set_forcing"
            /\ stages' = <<>>
            /\ exchanged' = {}
            /\ step0' = [taum1 |-> taum1, tau |-> tau, taup1 |-> taup1, itt |-> itt,
                         cur |-> [f \in Fields |-> field[f][tau]]]
       ELSE /\ pc' = "done"
            /\ UNCHANGED <<stages, exchanged, step0>>
  /\ UNCHANGED <<diag, indices, enditt, settings, allocated, field, forc_slot, calls,
                 panics, exc, raisedAt>>

\* while self.itt < self.enditt: try:
loop ==
  /\ pc = "loop"
  /\ IF itt < enditt
       THEN /\ pc' = "set_forcing"
            /\ stages' = <<>>
            /\ exchanged' = {}
            /\ step0' = [taum1 |-> taum1, tau |-> tau, taup1 |-> taup1, itt |-> itt,
                         cur |-> [f \in Fields |-> field[f][tau]]]
       ELSE /\ pc' = "done"
            /\ UNCHANGED <<stages, exchanged, step0>>
  /\ UNCHANGED <<diag, indices, enditt, settings, allocated, field, forc_slot, calls,
                 panics, exc, raisedAt>>

\* self.set_forcing(): GlobalOneDegree.set_forcing reads m.temp[..., -1, 1] and
\* m.salt[..., -1, 1] and writes the surface forcing arrays
set_forcing ==
  /\ Call("set_forcing")
  /\ forc_slot' = 1
  /\ UNCHANGED exchanged

set_idemix_parameter ==
  Call("set_idemix_parameter") /\ UNCHANGED <<exchanged, forc_slot>>

set_spectral_parameter ==
  Call("set_spectral_parameter") /\ UNCHANGED <<exchanged, forc_slot>>

set_eke_diffusivities ==
  Call("set_eke_diffusivities") /\ UNCHANGED <<exchanged, forc_slot>>

set_tke_diffusivities ==
  Call("set_tke_diffusivities") /\ UNCHANGED <<exchanged, forc_slot>>

momentum ==
  Call("momentum") /\ UNCHANGED <<exchanged, forc_slot>>

thermodynamics ==
  Call("thermodynamics") /\ UNCHANGED <<exchanged, forc_slot>>

calculate_velocity_on_wgrid ==
  Call("calculate_velocity_on_wgrid") /\ UNCHANGED <<exchanged, forc_slot>>

integrate_eke ==
  Call("integrate_eke") /\ UNCHANGED <<exchanged, forc_slot>>

integrate_idemix_M2 ==
  Call("integrate_idemix_M2") /\ UNCHANGED <<exchanged, forc_slot>>

integrate_idemix_niw ==
  Call("integrate_idemix_niw") /\ UNCHANGED <<exchanged, forc_slot>>

integrate_idemix ==
  Call("integrate_idemix") /\ UNCHANGED <<exchanged, forc_slot>>

wave_interaction ==
  Call("wave_interaction") /\ UNCHANGED <<exchanged, forc_slot>>

integrate_tke ==
  Call("integrate_tke") /\ UNCHANGED <<exchanged, forc_slot>>

\* "Main boundary exchange": if self.enable_cyclic_x: cyclic.setcyclic_x(...)
setcyclic_x ==
  /\ Call("setcyclic_x")
  /\ exchanged' = IF enable_cyclic_x THEN setcyclic_fields(Len(setcyclic_seq)) ELSE exchanged
  /\ UNCHANGED forc_slot

\* if self.enable_hydrostatic: momentum.vertical_velocity(self)
vertical_velocity ==
  Call("vertical_velocity") /\ UNCHANGED <<exchanged, forc_slot>>

\* diagnostics.diagnose(self)
diagnose ==
  Call("diagnose") /\ UNCHANGED <<exchanged, forc_slot>>

\* the rotation written without the temporary otaum1
time_shift_no_temp ==
  /\ pc = "time_shift"
  /\ taum1' = tau
  /\ tau' = taup1
  /\ taup1' = tau
  /\ itt' = itt + 1
  /\ stages' = Append(stages, "time_shift")
  /\ calls' = [calls EXCEPT !["time_shift"] = @ + 1]
  /\ pc' = Succ("time_shift")
  /\ UNCHANGED <<diag, enditt, settings, allocated, field, exchanged, forc_slot, panics,
                 exc, raisedAt, step0>>

\* the rotation in the wrong direction
time_shift_backwards ==
  /\ pc = "time_shift"
  /\ taum1' = taup1
  /\ tau' = taum1
  /\ taup1' = tau
  /\ itt' = itt + 1
  /\ stages' = Append(stages, "time_shift")
  /\ calls' = [calls EXCEPT !["time_shift"] = @ + 1]
  /\ pc' = Succ("time_shift")
  /\ UNCHANGED <<diag, enditt, settings, allocated, field, exchanged, forc_slot, panics,
                 exc, raisedAt, step0>>

\* a rotation that also copies the current slot of every array into the past slot
time_shift_copy ==
  /\ pc = "time_shift"
  /\ taum1' = tau
  /\ tau' = taup1
  /\ taup1' = taum1
  /\ itt' = itt + 1
  /\ field' = [f \in Fields |-> [field[f] EXCEPT ![taum1] = field[f][tau]]]
  /\ stages' = Append(stages, "time_shift")
  /\ calls' = [calls EXCEPT !["time_shift"] = @ + 1]
  /\ pc' = Succ("time_shift")
  /\ UNCHANGED <<diag, enditt, settings, allocated, exchanged, forc_slot, panics,
                 exc, raisedAt, step0>>

\* "shift time"
time_shift ==
  /\ pc = "time_shift"
  /\ taum1' = tau
  /\ tau' = taup1
  /\ taup1' = taum1
  /\ itt' = itt + 1
  /\ stages' = Append(stages, "time_shift")
  /\ calls' = [calls EXCEPT !["time_shift"] = @ + 1]
  /\ pc' = Succ("time_shift")
  /\ UNCHANGED <<diag, enditt, settings, allocated, field, exchanged, forc_slot, panics,
                 exc, raisedAt, step0>>

\* print("Current iteration: {}".format(self.itt)), the last statement of the try body
print_itt ==
  Call("print_itt") /\ UNCHANGED <<exchanged, forc_slot>>

\* the statements of the try body that call out of run() and so can raise
TryStages == StageNames \ {"time_shift"}

\* a called stage raises: control goes to the except clause.  The stage may
\* have written part of its output before it failed.
stage_raises ==
  /\ pc \in TryStages
  /\ StageEnabled(pc)
  /\ stages' = Append(stages, pc)
  /\ calls' = [calls EXCEPT ![pc] = @ + 1]
  /\ \/ UNCHANGED field
     \/ field' = WriteSlot(field, Writes(pc), taup1, Partial)
  /\ IF pc = "setcyclic_x"
       THEN \E k \in 0..Len(setcyclic_seq) - 1 : exchanged' = setcyclic_fields(k)
       ELSE UNCHANGED exchanged
  /\ exc' = "Error" /\ raisedAt' = pc
  /\ pc' = "except"
  /\ UNCHANGED <<diag, indices, enditt, settings, allocated, forc_slot, panics, step0>>

\* an except clause without the raise: the loop goes on
panic_snap_swallow ==
  /\ pc = "except"
  /\ panics' = panics + 1
  /\ pc' = "loop"
  /\ UNCHANGED <<diag, indices, enditt, settings, allocated, field, exchanged, forc_slot,
                 stages, calls, exc, raisedAt, step0>>

\* an except clause that only re-raises
panic_snap_absent ==
  /\ pc = "except"
  /\ pc' = "raised"
  /\ UNCHANGED <<diag, indices, enditt, settings, allocated, field, exchanged, forc_slot,
                 stages, calls, panics, exc, raisedAt, step0>>

\* except: diagnostics.panic_snap(self); raise
panic_snap ==
  /\ pc = "except"
  /\ panics' = panics + 1
  /\ pc' = "raised"
  /\ UNCHANGED <<diag, indices, enditt, settings, allocated, field, exchanged, forc_slot,
                 stages, calls, exc, raisedAt, step0>>

Next ==
  \/ run \/ set_parameter \/ setup \/ setup_raises \/ check_setup
  \/ read_restart \/ read_restart_raises \/ set_enditt \/ loop
  \/ set_forcing \/ set_idemix_parameter \/ set_spectral_parameter
  \/ set_eke_diffusivities \/ set_tke_diffusivities
  \/ momentum \/ thermodynamics \/ calculate_velocity_on_wgrid
  \/ integrate_eke \/ integrate_idemix_M2 \/ integrate_idemix_niw
  \/ integrate_idemix \/ wave_interaction \/ integrate_tke
  \/ setcyclic_x \/ vertical_velocity \/ diagnose \/ time_shift \/ print_itt
  \/ stage_raises \/ panic_snap

Spec == Init /\ [][Next]_vars

\* run() is one thread of control: it goes on as long as a statement is left
FairSpec == Spec /\ WF_vars(Next)

\* ---- Overturning diagnostic --------------------------------------------
\* what one evaluation of diagnose_kernel on model state k adds to variable v
Contribution(v, k) ==
  CASE v = "trans" -> k
    [] v = "vsf_iso" -> 2 * k
    [] v = "vsf_depth" -> 3 * k
    [] v = "bolus_iso" -> 4 * k
    [] v = "bolus_depth" -> 5 * k

\* diagnose_kernel: trans, vsf_depth and vsf_iso are added to; bolus_depth and
\* bolus_iso only with enable_neutral_diffusion and enable_skew_diffusion
diagnose_kernel(acc, k) ==
  [v \in OvtVars |->
     IF v \in BolusVars /\ ~ovt_bolus THEN acc[v] ELSE acc[v] + Contribution(v, k)]

ovt_diagnose_no_nitts ==
  /\ ovt_ops < MaxOvtOps
  /\ \E k \in 1..MaxSample :
       /\ ovt_acc' = diagnose_kernel(ovt_acc, k)
       /\ ovt_sum' = diagnose_kernel(ovt_sum, k)
  /\ ovt_nitts' = ovt_nitts
  /\ ovt_count' = ovt_count + 1
  /\ ovt_ops' = ovt_ops + 1
  /\ UNCHANGED <<ovt_bolus, ovt_last, run_vars, tm_vars, rest_vars>>

\* Overturning.diagnose
ovt_diagnose ==
  /\ ovt_ops < MaxOvtOps
  /\ \E k \in 1..MaxSample :
       /\ ovt_acc' = diagnose_kernel(ovt_acc, k)
       /\ ovt_sum' = diagnose_kernel(ovt_sum, k)
  /\ ovt_nitts' = ovt_nitts + 1
  /\ ovt_count' = ovt_count + 1
  /\ ovt_ops' = ovt_ops + 1
  /\ UNCHANGED <<ovt_bolus, ovt_last, run_vars, tm_vars, rest_vars>>

divided_unguarded(v) ==
  IF v \in mean_variables /\ v \in output_variables
    THEN Rat(ovt_acc[v], ovt_nitts)
    ELSE Rat(ovt_acc[v], 1)

\* the value of variable v after the first loop of Overturning.output
divided(v) ==
  IF ovt_nitts > 0 /\ v \in mean_variables /\ v \in output_variables
    THEN Rat(ovt_acc[v], ovt_nitts)
    ELSE Rat(ovt_acc[v], 1)

\* the value of variable v after the second loop of Overturning.output
zeroed(v) ==
  IF v \in mean_variables /\ v \in output_variables THEN 0 ELSE ovt_acc[v]

\* Overturning.output: divide the mean variables, write, zero them, nitts = 0
ovt_output ==
  /\ ovt_ops < MaxOvtOps
  /\ ovt_last' = [done |-> TRUE,
                  vals |-> [v \in OvtVars |->
                              IF v \in output_variables THEN divided(v)
                                                        ELSE NotWritten],
                  sums |-> ovt_sum,
                  n |-> ovt_count]
  /\ ovt_acc' = [v \in OvtVars |-> zeroed(v)]
  /\ ovt_nitts' = 0
  /\ ovt_sum' = [v \in OvtVars |-> 0]
  /\ ovt_count' = 0
  /\ ovt_ops' = ovt_ops + 1
  /\ UNCHANGED <<ovt_bolus, run_vars, tm_vars, rest_vars>>

\* an Overturning diagnostic constructed for either setting of the two
\* diffusion switches, beside a model object that is not run
OvtInit ==
  RunInit /\ TmIdle /\ RestIdle /\ ovt_bolus \in BOOLEAN /\ OvtStart

OvtNext ==
  \/ ovt_diagnose
  \/ ovt_output

SpecOvt == OvtInit /\ [][OvtNext]_vars

\* ---- TracerMonitor diagnostic ------------------------------------------
\* np.sum over the cells S of the array f
RECURSIVE np_sum(_, _)
np_sum(S, f) ==
  IF S = {} THEN 0
  ELSE LET c == CHOOSE x \in S : TRUE
       IN f[c] + np_sum(S \ {c}, f)

cell_volume_nomask(c) ==
  area_dzt[c]

\* cell_volume = area_t * dzt * maskT
cell_volume(c) ==
  area_dzt[c] * tm_maskT[c]

\* vs.temp[..., s] and vs.salt[..., s]: slot tm_tau holds tm_temp and tm_salt,
\* the two other slots hold other values
temp_at(c, s) == tm_temp[c] + ((s + 3 - tm_tau) % 3)
salt_at(c, s) == tm_salt[c] + ((s + 3 - tm_tau) % 3)

\* volm, tempm, saltm, vtemp, vsalt of TracerMonitor.output
totals ==
  [volm |-> np_sum(Interior, [c \in Interior |-> cell_volume(c)]),
   tempm |-> np_sum(Interior, [c \in Interior |-> cell_volume(c) * temp_at(c, tm_tau)]),
   saltm |-> np_sum(Interior, [c \in Interior |-> cell_volume(c) * salt_at(c, tm_tau)]),
   vtemp |-> np_sum(Interior, [c \in Interior |->
                                 cell_volume(c) * temp_at(c, tm_tau) * temp_at(c, tm_tau)]),
   vsalt |-> np_sum(Interior, [c \in Interior |->
                                 cell_volume(c) * salt_at(c, tm_tau) * salt_at(c, tm_tau)])]

\* the four logger.diagnostic lines
logged(t) ==
  [has |-> TRUE,
   mean |-> [temp |-> Rat(t.tempm, t.volm), salt |-> Rat(t.saltm, t.volm),
             vtemp |-> Rat(t.vtemp, t.volm), vsalt |-> Rat(t.vsalt, t.volm)],
   change |-> [temp |-> Rat(t.tempm - tm_stored.tempm1, t.volm),
               salt |-> Rat(t.saltm - tm_stored.saltm1, t.volm),
               vtemp |-> Rat(t.vtemp - tm_stored.vtemp1, t.volm),
               vsalt |-> Rat(t.vsalt - tm_stored.vsalt1, t.volm)]]

tm_output_no_store ==
  /\ tm_report' = logged(totals)
  /\ tm_nout' = 1
  /\ UNCHANGED <<tm_stored, tm_maskT, tm_temp, tm_salt, tm_tau, run_vars, ovt_vars, rest_vars>>

\* TracerMonitor.output
tm_output ==
  /\ tm_report' = logged(totals)
  /\ tm_stored' = [tempm1 |-> totals.tempm, vtemp1 |-> totals.vtemp,
                   saltm1 |-> totals.saltm, vsalt1 |-> totals.vsalt]
  /\ tm_nout' = 1
  /\ UNCHANGED <<tm_maskT, tm_temp, tm_salt, tm_tau, run_vars, ovt_vars, rest_vars>>

\* between two outputs the model's steps change temp and salt, cell by cell
tm_change ==
  /\ \E c \in Cells, x \in 0..MaxVal :
       \/ tm_temp[c] # x /\ tm_temp' = [tm_temp EXCEPT ![c] = x] /\ tm_salt' = tm_salt
       \/ tm_salt[c] # x /\ tm_salt' = [tm_salt EXCEPT ![c] = x] /\ tm_temp' = tm_temp
  /\ tm_report' = NoReport
  /\ UNCHANGED <<tm_maskT, tm_tau, tm_stored, tm_nout, run_vars, ovt_vars, rest_vars>>

\* an initialized TracerMonitor on a grid whose cell 2 is ocean, whose cell 3
\* is ocean or land, with any temp and salt and any current slot
TmInit ==
  /\ RunInit /\ OvtIdle /\ RestIdle /\ TmStart
  /\ tm_maskT \in {mk \in [Cells -> {0, 1}] : mk[1] = 1 /\ mk[2] = 1}
  /\ tm_temp \in [Cells -> 0..MaxVal]
  /\ tm_salt \in [Cells -> 0..MaxVal]
  /\ tm_tau \in Slots

TmNext ==
  \/ tm_output
  \/ tm_change

SpecTm == TmInit /\ [][TmNext]_vars

\* ---- diagnose_kernel: area below the isopycnals --------------------------
sigma_descending(m) ==
  sige - dsig * m

\* ovt_vs.sigma = sigs + dsig * np.arange(nlevel)
sigma(m) ==
  sigs + dsig * m

\* zonal_sum(np.sum(fac * mask, axis=2)) with mask = sig_loc_face > ovt_vs.sigma[m]
RECURSIVE area_below(_, _)
area_below(S, m) ==
  IF S = {} THEN 0
  ELSE LET c == CHOOSE x \in S : TRUE
       IN (IF sg_face[c] > sigma(m) THEN sg_fac[c] ELSE 0) + area_below(S \ {c}, m)

\* loop_body of for_loop(0, nlevel, ...): z_sig[2:-2, m]
loop_body ==
  /\ sg_pc = "loop" /\ sg_m < nlevel
  /\ sg_z' = [sg_z EXCEPT ![sg_m] = area_below(SigCells, sg_m)]
  /\ sg_m' = sg_m + 1
  /\ sg_pc' = IF sg_m + 1 < nlevel THEN "loop" ELSE "interp"
  /\ UNCHANGED <<sg_face, sg_fac, sg_coords, per_vars, ic_vars, run_vars, ovt_vars, tm_vars>>

\* _interpolate_depth_coords(z_sig[2:-2, :], ...): coords = -coords
interpolate_depth_coords ==
  /\ sg_pc = "interp"
  /\ sg_coords' = [m \in Levels |-> 0 - sg_z[m]]
  /\ sg_pc' = "done"
  /\ UNCHANGED <<sg_face, sg_fac, sg_m, sg_z, per_vars, ic_vars, run_vars, ovt_vars, tm_vars>>

\* diagnose_kernel entered with any densities and any non-negative weights
SigInit ==
  /\ RunInit /\ OvtIdle /\ TmIdle /\ PerIdle /\ IcIdle
  /\ sg_face \in [SigCells -> 0..MaxSig]
  /\ sg_fac \in [SigCells -> 0..MaxFac]
  /\ sg_pc = "loop" /\ sg_m = 0
  /\ sg_z = ZeroLevels /\ sg_coords = ZeroLevels

SigNext ==
  \/ loop_body
  \/ interpolate_depth_coords

SpecSig == SigInit /\ [][SigNext]_vars

\* ---- GlobalOneDegree: forcing interval -----------------------------------
\* Python's round(t / c) for integers t >= 0, c > 0: to nearest, ties to even
round(t, c) ==
  LET q == t \div c
      r == t % c
  IN IF 2 * r < c THEN q
     ELSE IF 2 * r > c THEN q + 1
     ELSE IF q % 2 = 0 THEN q ELSE q + 1

\* _get_periodic_interval(currentTime, cycleLength, recSpacing, nbrec)
get_periodic_interval(currentTime) ==
  LET locTime == currentTime - recSpacing \div 2
                   + cycleLength * (2 - round(currentTime, cycleLength))
      tmpTime == locTime % cycleLength
      tRec1 == tmpTime \div recSpacing
      tRec2 == tmpTime % nbrec
      wght2 == tmpTime - recSpacing * tRec1
  IN [has |-> TRUE,
      tRec1 |-> tRec1, wght1 |-> Rat(recSpacing - wght2, recSpacing),
      tRec2 |-> tRec2, wght2 |-> Rat(wght2, recSpacing)]

\* set_forcing: (n1, f1), (n2, f2) = self._get_periodic_interval((m.itt-1) * m.dt_tracer, ...)
per_set_forcing ==
  /\ ~per_rec.has
  /\ per_rec' = get_periodic_interval((per_itt - 1) * per_dt_tracer)
  /\ UNCHANGED <<per_itt, sig_vars, ic_vars, run_vars, ovt_vars, tm_vars>>

\* the rest of the step: self.itt = self.itt + 1
per_step ==
  /\ per_rec.has /\ per_itt < MaxPerItt
  /\ per_itt' = per_itt + 1
  /\ per_rec' = NoInterval
  /\ UNCHANGED <<sig_vars, ic_vars, run_vars, ovt_vars, tm_vars>>

PerInit ==
  RunInit /\ OvtIdle /\ TmIdle /\ SigIdle /\ IcIdle /\ PerIdle

PerNext ==
  \/ per_set_forcing
  \/ per_step

SpecPer == PerInit /\ [][PerNext]_vars

\* ---- GlobalOneDegree.set_initial_conditions ------------------------------
\* data[..., ::-1] * m.maskT[2:-2, 2:-2, :] at cell p = <<column, level>>
masked_data(data, p) ==
  data[<<p[1], ic_nz - 1 - p[2]>>] * ic_maskT[p]

\* arr[2:-2, 2:-2, :, s] = data[..., ::-1] * m.maskT[2:-2, 2:-2, :] for s in slots
assign_slots(arr, data, slots) ==
  [s \in Slots |->
     [p \in IcCells |->
        IF s \in slots /\ p[1] \in IcInterior THEN masked_data(data, p) ELSE arr[s][p]]]

set_initial_conditions_all_slots ==
  /\ ic_pc = "allocated"
  /\ ic_temp' = assign_slots(ic_temp, ic_tdata, {0, 1, 2})
  /\ ic_salt' = assign_slots(ic_salt, ic_sdata, {0, 1, 2})
  /\ ic_pc' = "set"
  /\ UNCHANGED <<ic_maskT, ic_tdata, ic_sdata, sig_vars, per_vars, run_vars, ovt_vars,
                 tm_vars>>

\* set_initial_conditions: slots 0 and 1 of temp and of salt
set_initial_conditions ==
  /\ ic_pc = "allocated"
  /\ ic_temp' = assign_slots(ic_temp, ic_tdata, {0, 1})
  /\ ic_salt' = assign_slots(ic_salt, ic_sdata, {0, 1})
  /\ ic_pc' = "set"
  /\ UNCHANGED <<ic_maskT, ic_tdata, ic_sdata, sig_vars, per_vars, run_vars, ovt_vars,
                 tm_vars>>

\* after allocate and set_topography: zero arrays, any land mask, any file content
IcInit ==
  /\ RunInit /\ OvtIdle /\ TmIdle /\ SigIdle /\ PerIdle
  /\ ic_pc = "allocated"
  /\ ic_maskT \in [IcCells -> {0, 1}]
  /\ ic_tdata \in [IcInterior \X IcLevels -> 1..MaxIc]
  /\ ic_sdata \in [IcInterior \X IcLevels -> 1..MaxIc]
  /\ ic_temp = IcZeros
  /\ ic_salt = IcZeros

IcNext ==
  set_initial_conditions

SpecIc == IcInit /\ [][IcNext]_vars

\* ---- properties ---------------------------------------------------------
Last(sq) == sq[Len(sq)]

SetupPhases == {"setup", "check_setup", "read_restart", "set_enditt"}

\* the rank the fixed stage order gives to a stage; 0 for a stage it does not name
PhaseRank(s) ==
  CASE s = "set_forcing" -> 1
    [] s \in {"set_idemix_parameter", "set_spectral_parameter",
              "set_eke_diffusivities", "set_tke_diffusivities"} -> 2
    [] s = "momentum" -> 3
    [] s = "thermodynamics" -> 4
    [] s \in {"integrate_eke", "integrate_idemix_M2", "integrate_idemix_niw",
              "integrate_idemix", "wave_interaction", "integrate_tke"} -> 5
    [] s = "setcyclic_x" -> 6
    [] s = "time_shift" -> 7
    [] OTHER -> 0

\* C1: in every iteration of the main loop the stages run in the order
\* set_forcing, closure-parameter precompute, momentum, thermodynamics, closure
\* integration, boundary exchange, time rotation, none of them twice;
\* thermodynamics runs only after momentum of the same step has written the
\* taup1 velocity, and no precompute runs after momentum.
C1_StageOrder ==
  /\ \A i, j \in 1..Len(stages) :
       (i < j /\ PhaseRank(stages[i]) > 0 /\ PhaseRank(stages[j]) > 0)
         => /\ PhaseRank(stages[i]) <= PhaseRank(stages[j])
            /\ stages[i] # stages[j]
  /\ \A j \in 1..Len(stages) :
       PhaseRank(stages[j]) > 1 => stages[1] = "set_forcing"
  /\ \A j \in 1..Len(stages) :
       stages[j] = "thermodynamics" =>
         /\ \E i \in 1..(j - 1) : stages[i] = "momentum"
         /\ (\A k \in 1..Len(stages) : stages[k] # "time_shift")
              => field["u"][taup1] = itt /\ field["v"][taup1] = itt
  /\ \A j \in 1..Len(stages) :
       stages[j] = "time_shift" =>
         \A s \in {"set_forcing", "set_eke_diffusivities", "set_tke_diffusivities",
                   "momentum", "thermodynamics"} :
           \E i \in 1..(j - 1) : stages[i] = s

C1_Witness ==
  /\ pc = "print_itt"
  /\ itt = 3
  /\ enable_idemix /\ enable_idemix_M2 /\ enable_eke /\ enable_tke /\ enable_cyclic_x
  /\ Last(stages) = "time_shift"

\* C2: at every point of a run (taum1, tau, taup1) is a permutation of {0, 1, 2}.
C2_IndexPermutation ==
  /\ {taum1, tau, taup1} = Slots
  /\ taum1 # tau /\ tau # taup1 /\ taum1 # taup1

C2_Witness ==
  pc = "loop" /\ itt = 3 /\ taum1 = 2 /\ tau = 0 /\ taup1 = 1

\* C3: a completed step leaves taum1 = old tau, tau = old taup1, taup1 = old
\* taum1, and the past slot then holds, for every allocated field, the values
\* that were current when the step started.
C3_Rotation ==
  (pc \in {"print_itt", "loop", "done"} /\ step0 # NoStep) =>
    /\ taum1 = step0.tau
    /\ tau = step0.taup1
    /\ taup1 = step0.taum1
    /\ itt = step0.itt + 1
    /\ \A f \in allocated : field[f][taum1] = step0.cur[f]

C3_Witness ==
  /\ pc = "loop" /\ itt = 3
  /\ field["u"][taum1] = 1 /\ field["u"][tau] = 2
  /\ field["temp"][taum1] = 1 /\ field["temp"][tau] = 2

\* C4: the time shift changes only taum1, tau, taup1 and itt: no element of
\* any field array is copied or modified, and no other attribute changes.
C4_ShiftLeavesFields ==
  [][pc = "time_shift" =>
       /\ field' = field
       /\ UNCHANGED <<enditt, settings, allocated, exchanged, forc_slot, panics,
                      exc, raisedAt>>]_vars

C4_Witness ==
  /\ pc = "print_itt"
  /\ field["u"][taum1] # field["u"][tau]
  /\ field["u"][tau] # field["u"][taup1]
  /\ field["temp"][taum1] # field["temp"][tau]

\* C5: when a stage of a step raises, panic_snap is invoked exactly once, after
\* the failing stage and before the exception leaves run; the same failure
\* propagates, and no later stage and no later step is executed.
C5_PanicThenPropagate ==
  /\ [](/\ pc = "except" => /\ panics = 0
                            /\ raisedAt \in StageNames /\ exc = "Error"
                            /\ Last(stages) = raisedAt
        /\ (pc = "raised" /\ raisedAt \in StageNames) =>
             /\ panics = 1
             /\ exc = "Error"
             /\ Last(stages) = raisedAt
        /\ panics > 0 => pc = "raised")
  /\ [][pc = "raised" => UNCHANGED vars]_vars

C5_Witness ==
  pc = "raised" /\ raisedAt = "momentum" /\ panics = 1 /\ itt = 2

\* C6: a step that fails in a stage between set_forcing and diagnose leaves
\* taum1, tau, taup1 and itt as they were at the start of the step, and a
\* partially written slot is never designated tau or taum1.
C6_NoPromotion ==
  /\ (pc \in {"except", "raised"} /\ raisedAt \in StageNames \ {"print_itt"}) =>
       /\ taum1 = step0.taum1
       /\ tau = step0.tau
       /\ taup1 = step0.taup1
       /\ itt = step0.itt
  /\ \A f \in Fields : field[f][tau] # Partial /\ field[f][taum1] # Partial

C6_Witness ==
  /\ pc = "raised" /\ raisedAt = "thermodynamics" /\ itt = 2
  /\ field["temp"][taup1] = Partial

\* C7: with enable_tke and without enable_implicit_vert_friction the check at
\* the end of setup raises RuntimeError, setup never returns, no stage of the
\* main loop is ever invoked and itt keeps its initial value.
C7_ConfigError ==
  (pc \notin {"run", "setup"} /\ enable_tke /\ ~enable_implicit_vert_friction) =>
    /\ pc \in {"setup_body", "check_setup", "raised"}
    /\ \A s \in StageNames : calls[s] = 0
    /\ stages = <<>>
    /\ itt = 1 /\ taum1 = 0 /\ tau = 1 /\ taup1 = 2
    /\ panics = 0
    /\ (pc = "raised" /\ raisedAt # "setup") =>
         (raisedAt = "check_setup" /\ exc = "RuntimeError")

C7_Witness ==
  /\ pc = "raised" /\ raisedAt = "check_setup" /\ exc = "RuntimeError"
  /\ enable_tke /\ ~enable_implicit_vert_friction /\ runlen = MaxRunlen /\ dt_tracer = 1

IsClosureStage(s) ==
  s \in {"integrate_eke", "integrate_idemix_M2", "integrate_idemix_niw",
         "integrate_idemix", "wave_interaction", "integrate_tke"}

ClosureFlag(s) ==
  CASE s = "integrate_eke" -> enable_eke
    [] s = "integrate_idemix_M2" -> enable_idemix_M2
    [] s = "integrate_idemix_niw" -> enable_idemix_niw
    [] s = "integrate_idemix" -> enable_idemix
    [] s = "wave_interaction" -> enable_idemix_M2 \/ enable_idemix_niw
    [] s = "integrate_tke" -> enable_tke

ClosureOrder ==
  <<"integrate_eke", "integrate_idemix_M2", "integrate_idemix_niw",
    "integrate_idemix", "wave_interaction", "integrate_tke">>

IsPrefix(a, b) ==
  Len(a) <= Len(b) /\ \A i \in 1..Len(a) : a[i] = b[i]

\* C9: within a step the closures are integrated in the order EKE, internal
\* wave (M2, niw, idemix, wave_interaction), TKE for every combination of the
\* switches, and a closure whose switch is off is not integrated.
C9_ClosureOrder ==
  LET done == SelectSeq(stages, IsClosureStage)
      want == SelectSeq(ClosureOrder, ClosureFlag)
  IN /\ IsPrefix(done, want)
     /\ pc \in {"setcyclic_x", "vertical_velocity", "diagnose", "time_shift",
                "print_itt"} => done = want

C9_Witness ==
  /\ pc = "setcyclic_x"
  /\ enable_eke /\ enable_idemix /\ enable_idemix_M2 /\ enable_idemix_niw /\ enable_tke
  /\ Len(SelectSeq(stages, IsClosureStage)) = 6

EnergyFields ==
  (IF enable_tke THEN {"tke"} ELSE {})
    \cup (IF enable_eke THEN {"eke"} ELSE {})
    \cup (IF enable_idemix THEN {"E_iw"} ELSE {})
    \cup (IF enable_idemix_M2 THEN {"E_M2"} ELSE {})
    \cup (IF enable_idemix_niw THEN {"E_niw"} ELSE {})

InvokedBefore(s, j) ==
  \E i \in 1..(j - 1) : stages[i] = s

NotShifted ==
  \A k \in 1..Len(stages) : stages[k] # "time_shift"

\* C11 as stated: the exchange of u and v at taup1 is complete before
\* thermodynamics and the closure integrations of the same step begin.
C11_ExchangeBeforeRead ==
  \A j \in 1..Len(stages) :
    (NotShifted /\ (stages[j] = "thermodynamics" \/ IsClosureStage(stages[j])))
      => {"u", "v"} \subseteq exchanged

\* C11 amended: run() exchanges nothing between momentum and the closure
\* integrations; its exchange of u and v at taup1 (under enable_cyclic_x)
\* comes after thermodynamics and every closure integration of the step and
\* is complete before vertical_velocity, diagnose and the time rotation.
C11_ExchangeAfterClosures ==
  /\ (\A k \in 1..Len(stages) : stages[k] # "setcyclic_x") => exchanged = {}
  /\ \A j \in 1..Len(stages) :
       /\ stages[j] = "setcyclic_x" =>
            /\ InvokedBefore("momentum", j) /\ InvokedBefore("thermodynamics", j)
            /\ \A i \in 1..Len(stages) :
                 (stages[i] = "thermodynamics" \/ IsClosureStage(stages[i])) => i < j
       /\ (stages[j] \in {"vertical_velocity", "diagnose", "time_shift"}
             /\ enable_cyclic_x) =>
            /\ InvokedBefore("setcyclic_x", j)
            /\ {"u", "v"} \subseteq exchanged

C11_Witness ==
  /\ pc = "setcyclic_x" /\ enable_cyclic_x /\ enable_tke /\ enable_eke
  /\ Last(stages) = "integrate_tke"
  /\ field["temp"][taup1] = itt /\ field["tke"][taup1] = itt
  /\ exchanged = {}

\* C12 as stated: whenever integrate_eke, integrate_idemix, integrate_idemix_M2,
\* integrate_idemix_niw or integrate_tke runs, calculate_velocity_on_wgrid has
\* already run in that step, for every combination of the switches.
C12_WgridBeforeEveryClosure ==
  \A j \in 1..Len(stages) :
    stages[j] \in {"integrate_eke", "integrate_idemix", "integrate_idemix_M2",
                   "integrate_idemix_niw", "integrate_tke"}
      => InvokedBefore("calculate_velocity_on_wgrid", j)

\* C12 amended: calculate_velocity_on_wgrid runs exactly when enable_eke,
\* enable_tke or enable_idemix is set, after thermodynamics and before
\* integrate_eke, integrate_idemix and integrate_tke of the step;
\* integrate_idemix_M2 and integrate_idemix_niw have it before them only if
\* one of those three switches is set as well.
C12_WgridBeforeEkeIdemixTke ==
  \A j \in 1..Len(stages) :
    /\ stages[j] \in {"integrate_eke", "integrate_idemix", "integrate_tke"}
         => InvokedBefore("calculate_velocity_on_wgrid", j)
    /\ stages[j] \in {"integrate_idemix_M2", "integrate_idemix_niw"}
         => (InvokedBefore("calculate_velocity_on_wgrid", j)
               <=> (enable_eke \/ enable_tke \/ enable_idemix))
    /\ stages[j] = "calculate_velocity_on_wgrid"
         => /\ enable_eke \/ enable_tke \/ enable_idemix
            /\ InvokedBefore("thermodynamics", j)
    /\ (stages[j] = "setcyclic_x" /\ (enable_eke \/ enable_tke \/ enable_idemix))
         => InvokedBefore("calculate_velocity_on_wgrid", j)

C12_Witness ==
  /\ pc = "setcyclic_x" /\ enable_tke /\ ~enable_eke /\ ~enable_idemix
  /\ enable_idemix_niw
  /\ Last(stages) = "integrate_tke"

\* C13: in every step, whatever the value of tau, set_forcing reads the
\* surface temperature and salinity of slot tau, never of the slot that is
\* taum1 or taup1 at that time.
C13_ForcingReadsTau ==
  (pc = "set_idemix_parameter" /\ Last(stages) = "set_forcing") => forc_slot = tau

\* C14: no retries: a stage is invoked at most once in an iteration, after N
\* completed steps momentum and thermodynamics have been invoked N times each,
\* and after a failure no stage is invoked again.
C14_NoRetries ==
  /\ [](/\ \A i, j \in 1..Len(stages) : i < j => stages[i] # stages[j]
        /\ \A s \in StageNames : calls[s] <= calls["set_forcing"]
        /\ pc \in {"print_itt", "loop", "done"} =>
             /\ calls["momentum"] = calls["time_shift"]
             /\ calls["thermodynamics"] = calls["time_shift"]
             /\ calls["time_shift"] = itt - 1
             /\ calls["set_forcing"] = itt - 1
             /\ calls["diagnose"] = itt - 1)
  /\ [][(pc \in {"except", "raised"}) => (calls' = calls /\ stages' = stages)]_vars

C14_Witness ==
  /\ pc = "done" /\ itt = 4 /\ calls["momentum"] = 3 /\ calls["thermodynamics"] = 3
  /\ enable_tke /\ calls["integrate_tke"] = 3

\* C18: if no stage fails the main loop ends after exactly
\* int(runlen / dt_tracer) completed steps (none when runlen < dt_tracer), itt
\* grows by exactly one per completed step, and on exit itt = enditt; the run
\* always comes to an end.
C18_Termination ==
  /\ [](/\ pc = "done" =>
             /\ itt = enditt
             /\ calls["time_shift"] = runlen \div dt_tracer
             /\ itt = 1 + (runlen \div dt_tracer)
             /\ runlen < dt_tracer => (itt = 1 /\ stages = <<>>)
        /\ (pc \in StageNames \cup {"loop", "done"}) => itt <= enditt)
  /\ [][itt' # itt => (pc = "time_shift" /\ itt' = itt + 1)]_vars
  /\ <>(pc \in {"done", "raised"})

C18_Witness ==
  /\ pc = "done" /\ runlen = 3 /\ dt_tracer = 2 /\ itt = 2 /\ enditt = 2

\* C19: in every step diagnose is invoked once, after all field updates of
\* the step (boundary exchange and, when enable_hydrostatic, vertical_velocity)
\* and strictly before the time rotation and the increment of itt, so during
\* diagnose tau is still the previous completed step and taup1 the new one.
C19_DiagnoseBeforeShift ==
  /\ \A j \in 1..Len(stages) :
       /\ stages[j] = "diagnose" =>
            /\ InvokedBefore("momentum", j) /\ InvokedBefore("thermodynamics", j)
            /\ enable_cyclic_x => InvokedBefore("setcyclic_x", j)
            /\ enable_hydrostatic => InvokedBefore("vertical_velocity", j)
            /\ \A s \in StageNames : (StageEnabled(s) /\ Writes(s) # {})
                                        => InvokedBefore(s, j)
            /\ ~InvokedBefore("time_shift", j)
            /\ ~InvokedBefore("diagnose", j)
            /\ NotShifted =>
                 /\ tau = step0.tau /\ taup1 = step0.taup1 /\ taum1 = step0.taum1
                 /\ itt = step0.itt
                 /\ \A f \in allocated : field[f][taup1] = itt
                 /\ \A f \in Fields : field[f][tau] = step0.cur[f]
       /\ stages[j] = "time_shift" => InvokedBefore("diagnose", j)

C19_Witness ==
  /\ pc = "time_shift" /\ Last(stages) = "diagnose" /\ itt = 2
  /\ enable_hydrostatic /\ enable_cyclic_x /\ enable_idemix

\* C20: for every combination of the switches the boundary exchange of run()
\* touches no closure field that allocate did not create (tke only with
\* enable_tke, eke with enable_eke, E_iw with enable_idemix, E_M2 with
\* enable_idemix_M2, E_niw with enable_idemix_niw), and without
\* enable_cyclic_x it exchanges no field at all.
C20_ExchangeOnlyAllocated ==
  /\ exchanged \subseteq allocated
  /\ "tke" \in exchanged => enable_tke
  /\ "eke" \in exchanged => enable_eke
  /\ "E_iw" \in exchanged => enable_idemix
  /\ "E_M2" \in exchanged => enable_idemix_M2
  /\ "E_niw" \in exchanged => enable_idemix_niw
  /\ ~enable_cyclic_x => exchanged = {}

C20_Witness ==
  /\ pc = "vertical_velocity" /\ Last(stages) = "setcyclic_x"
  /\ ~enable_tke /\ enable_eke /\ ~enable_idemix /\ enable_idemix_M2
  /\ exchanged = {"u", "v", "eke", "E_M2"}

\* C15: Overturning.output writes, for every accumulated output variable
\* (trans, vsf_iso, vsf_depth and, with neutral and skew diffusion, bolus_iso
\* and bolus_depth), the sum of the samples gathered since the previous output
\* divided by their number.
C15_OutputWritesMeans ==
  (ovt_last.done /\ ovt_last.n > 0) =>
    \A v \in output_variables :
      /\ ovt_last.vals[v].d # 0
      /\ ovt_last.vals[v].n * ovt_last.n = ovt_last.sums[v] * ovt_last.vals[v].d

\* the interior cells that are ocean
OceanCells == {c \in Interior : tm_maskT[c] = 1}

RECURSIVE OceanSum(_, _)
OceanSum(S, f) ==
  IF S = {} THEN 0
  ELSE LET c == CHOOSE x \in S : TRUE
       IN f[c] + OceanSum(S \ {c}, f)

OceanVolume == OceanSum(OceanCells, area_dzt)

Quantities == {"temp", "salt", "vtemp", "vsalt"}

\* C16: TracerMonitor.output reports as change to last the current total minus
\* the total stored by the previous output, divided by the ocean volume, and
\* then stores the current totals in tempm1, vtemp1, saltm1, vsalt1; an output
\* that follows an output with temp and salt unchanged reports zero changes,
\* and the first output after initialization compares against zero.
C16_ChangeToLast ==
  /\ [][tm_report'.has =>
          /\ tm_report'.change["temp"] = Rat(tm_stored'.tempm1 - tm_stored.tempm1, OceanVolume)
          /\ tm_report'.change["salt"] = Rat(tm_stored'.saltm1 - tm_stored.saltm1, OceanVolume)
          /\ tm_report'.change["vtemp"] = Rat(tm_stored'.vtemp1 - tm_stored.vtemp1, OceanVolume)
          /\ tm_report'.change["vsalt"] = Rat(tm_stored'.vsalt1 - tm_stored.vsalt1, OceanVolume)
          /\ tm_report'.mean["temp"] = Rat(tm_stored'.tempm1, OceanVolume)
          /\ tm_report'.mean["salt"] = Rat(tm_stored'.saltm1, OceanVolume)
          /\ tm_report'.mean["vtemp"] = Rat(tm_stored'.vtemp1, OceanVolume)
          /\ tm_report'.mean["vsalt"] = Rat(tm_stored'.vsalt1, OceanVolume)]_vars
  /\ [][(tm_report.has /\ tm_report'.has) =>
          \A q \in Quantities : tm_report'.change[q].n = 0]_vars
  /\ [][(tm_nout = 0 /\ tm_report'.has) =>
          \A q \in Quantities : tm_report'.change[q] = tm_report'.mean[q]]_vars
  /\ [](tm_nout = 0 => tm_stored = TmZero)

C16_Witness ==
  /\ tm_nout = 1 /\ tm_report.has
  /\ tm_report.mean["temp"].n > 0 /\ tm_report.mean["salt"].n > 0
  /\ \A q \in Quantities : tm_report.change[q].n = 0

\* C17: the totals behind the logged means are the sums over the interior
\* cells with maskT = 1 of area_t * dzt * value (value squared for the
\* variances) at slot tau; the values at land cells and at halo cells do not
\* enter them.
C17_OceanInteriorOnly ==
  tm_report.has =>
    /\ OceanVolume > 0
    /\ tm_report.mean["temp"] =
         Rat(OceanSum(OceanCells, [c \in Cells |-> area_dzt[c] * tm_temp[c]]), OceanVolume)
    /\ tm_report.mean["salt"] =
         Rat(OceanSum(OceanCells, [c \in Cells |-> area_dzt[c] * tm_salt[c]]), OceanVolume)
    /\ tm_report.mean["vtemp"] =
         Rat(OceanSum(OceanCells, [c \in Cells |-> area_dzt[c] * tm_temp[c] * tm_temp[c]]),
             OceanVolume)
    /\ tm_report.mean["vsalt"] =
         Rat(OceanSum(OceanCells, [c \in Cells |-> area_dzt[c] * tm_salt[c] * tm_salt[c]]),
             OceanVolume)

C17_Witness ==
  /\ tm_report.has /\ tm_maskT[3] = 0 /\ tm_tau = 2
  /\ tm_temp[1] = 1 /\ tm_temp[2] = 1 /\ tm_temp[3] = 1
  /\ tm_salt[1] = 1 /\ tm_salt[2] = 0 /\ tm_salt[3] = 1
  /\ tm_report.mean["temp"] = Rat(1, 1) /\ tm_report.mean["salt"] = Rat(0, 1)

\* the step is a call of Overturning.output
IsOvtOutput ==
  ovt_ops' # ovt_ops /\ ovt_count' = 0

\* the last call was Overturning.output
AfterOvtOutput ==
  ovt_last.done /\ ovt_count = 0

\* C21: after Overturning.output returns, nitts is 0 and each of trans,
\* vsf_iso, vsf_depth, bolus_iso, bolus_depth is zero.
C21_OutputResetsAll ==
  AfterOvtOutput =>
    /\ ovt_nitts = 0
    /\ \A v \in {"trans", "vsf_iso", "vsf_depth", "bolus_iso", "bolus_depth"} :
         ovt_acc[v] = 0

\* C22: after any interleaving of diagnose and output, nitts is the number of
\* diagnose calls since the most recent output (since initialization when
\* there was none); it is never negative and is 0 right after every output.
C22_NittsCountsDiagnose ==
  /\ [](/\ ovt_nitts = ovt_count
        /\ ovt_nitts >= 0
        /\ AfterOvtOutput => ovt_nitts = 0
        /\ ovt_ops = 0 => ovt_nitts = 0)
  /\ [][IF IsOvtOutput THEN ovt_nitts' = 0 ELSE ovt_nitts' = ovt_nitts + 1]_vars

C22_Witness ==
  ovt_last.done /\ ovt_last.n = 1 /\ ovt_nitts = 2 /\ ovt_ops = 4

\* C23: Overturning.output called with nitts = 0 divides nothing: it writes
\* the accumulators as they are and leaves nitts 0 and trans, vsf_iso,
\* vsf_depth zero; an output that directly follows an output writes zero for
\* these three.
C23_OutputWithoutSamples ==
  /\ [][(IsOvtOutput /\ ovt_nitts = 0) =>
          /\ \A v \in output_variables : ovt_last'.vals[v] = Rat(ovt_acc[v], 1)
          /\ ovt_nitts' = 0
          /\ \A v \in {"trans", "vsf_iso", "vsf_depth"} : ovt_acc'[v] = 0
          /\ AfterOvtOutput =>
               \A v \in {"trans", "vsf_iso", "vsf_depth"} :
                 ovt_last'.vals[v] = Rat(0, 1)]_vars
  /\ [](ovt_last.done => \A v \in output_variables : ovt_last.vals[v].d > 0)

C23_Witness ==
  /\ AfterOvtOutput /\ ovt_last.n = 0 /\ ovt_ops = 3 /\ ovt_bolus
  /\ ovt_last.vals["trans"] = Rat(0, 1)
  /\ ovt_last.vals["bolus_iso"].n > 0

\* C27: the rotation has period three over the three slots: a completed step
\* maps (taum1, tau, taup1) to (tau, taup1, taum1), so three consecutive
\* completed steps bring the triple back (it is a function of itt modulo 3),
\* and from the initial (0, 1, 2) tau = (taum1 + 1) mod 3 and
\* taup1 = (tau + 1) mod 3 hold after every step.
C27_PeriodThree ==
  /\ [](/\ tau = (taum1 + 1) % 3
        /\ taup1 = (tau + 1) % 3
        /\ {taum1, tau, taup1} = {0, 1, 2}
        /\ taum1 = (itt + 2) % 3 /\ tau = itt % 3 /\ taup1 = (itt + 1) % 3
        /\ itt = 1 + calls["time_shift"])
  /\ [][itt' # itt =>
          /\ itt' = itt + 1
          /\ <<taum1', tau', taup1'>> = <<tau, taup1, taum1>>
          /\ <<taum1', tau', taup1'>> # <<taum1, tau, taup1>>]_vars

C27_Witness ==
  /\ pc = "done" /\ calls["time_shift"] = 3 /\ itt = 4
  /\ taum1 = 0 /\ tau = 1 /\ taup1 = 2
  /\ step0.taum1 = 2 /\ step0.tau = 0 /\ step0.taup1 = 1

\* C24: for a latitude row, z_sig[j, m] is non-increasing in the sigma level m
\* (already among the levels the loop has filled), and the negated
\* coordinates handed to the interpolation are monotonically increasing
\* (non-decreasing: equal neighbours occur).
C24_CoordsMonotone ==
  /\ \A a, b \in 0..(nlevel - 1) :
       (a < b /\ b < sg_m) => sg_z[b] <= sg_z[a]
  /\ sg_pc = "done" =>
       \A a, b \in 0..(nlevel - 1) : a < b => sg_coords[a] <= sg_coords[b]
  /\ sg_pc = "done" => \A a \in 0..(nlevel - 1) : sg_coords[a] = 0 - sg_z[a]

C24_Witness ==
  /\ sg_pc = "done"
  /\ sg_coords[0] < sg_coords[1] /\ sg_coords[1] = sg_coords[2]
  /\ sg_coords[2] < sg_coords[3]

\* C25: the two records _get_periodic_interval returns are adjacent in the
\* cycle, tRec2 = (tRec1 + 1) mod nbrec, at every step time
\* (itt - 1) * dt_tracer.
C25_AdjacentRecords ==
  per_rec.has => per_rec.tRec2 = (per_rec.tRec1 + 1) % 12

\* C26: after set_initial_conditions slots 0 and 1 (the initial taum1 and tau)
\* of temp and of salt hold identical data, the file content where maskT = 1
\* and zero at every cell with maskT = 0, and slot 2 (the initial taup1) is
\* left as it was.
C26_InitialSlots ==
  /\ [](ic_pc = "set" =>
          /\ taum1 = 0 /\ tau = 1 /\ taup1 = 2
          /\ ic_temp[taum1] = ic_temp[tau] /\ ic_salt[taum1] = ic_salt[tau]
          /\ \A p \in IcCells :
               /\ ic_maskT[p] = 0 => (ic_temp[tau][p] = 0 /\ ic_salt[tau][p] = 0)
               /\ (ic_maskT[p] = 1 /\ p[1] = 2) =>
                    /\ ic_temp[tau][p] = ic_tdata[<<p[1], 1 - p[2]>>]
                    /\ ic_salt[tau][p] = ic_sdata[<<p[1], 1 - p[2]>>])
  /\ [][ic_pc' = "set" => (ic_temp'[2] = ic_temp[2] /\ ic_salt'[2] = ic_salt[2])]_vars

C26_Witness ==
  /\ ic_pc = "set"
  /\ ic_maskT[<<2, 0>>] = 1 /\ ic_maskT[<<2, 1>>] = 0 /\ ic_maskT[<<1, 0>>] = 0
  /\ ic_tdata[<<2, 0>>] = 1 /\ ic_tdata[<<2, 1>>] = 2
  /\ ic_temp[0][<<2, 0>>] = 2 /\ ic_temp[1][<<2, 0>>] = 2 /\ ic_temp[2][<<2, 0>>] = 0
  /\ ic_salt[1][<<2, 0>>] > 0

====
